---- MODULE Spec2Model ----
(***************************************************************************)
(* Swap execution orchestrator of wholecoiner: POST /api/invest/execute    *)
(* (app/api/invest/execute/route.js and its longer revision with the       *)
(* block-height pre-check), PATCH /api/goals/:id and lib/goalValidation.js.*)
(* The admin internal transfer endpoint (prepare and submit modes) works on *)
(* table internal_transfers and has its own specifications.                *)
(* Every await on the database or on the network is one step, so requests  *)
(* interleave exactly where the handlers can be suspended.                 *)
(*                                                                         *)
(* Amounts are fixed-point integers with LedgerScale fractional digits.    *)
(***************************************************************************)
EXTENDS Integers, Sequences, FiniteSets, TLC

\* ---------------------------------------------------------------- bounds
NumExec == 2            \* concurrent execute requests
MaxStarts == 2          \* execute requests accepted in one behaviour
MaxPatches == 1         \* PATCH requests accepted in one behaviour
MaxGoalStarts == 1      \* execute requests accepted next to PATCH requests
NumBatches == 1         \* batch identifiers
NumSignedTxs == 2       \* distinct signed transactions a client can post
MaxOutAmount == 2       \* largest quoteResponse.outAmount (smallest units)

LedgerScale == 2        \* fractional digits kept of the Float columns
GoalDecimals == 1       \* decimals of the goal coin (getTokenMint(goal.coin))
LastValid == 5          \* the lastValidBlockHeight a client can post
NumTransfer == 2        \* concurrent internal transfer requests
MaxTransferStarts == 3  \* internal transfer requests accepted in one behaviour
MaxPrepareStarts == 3   \* prepare requests accepted when only prepares run
NumAddresses == 2       \* wallets a transfer can be prepared from
NumTransferTxs == 1     \* distinct signed transfers an admin can post
MaxCalls == 2           \* calls of SwapCard.executeSwap in one behaviour
MaxPayloads == 3        \* unsigned swap transactions the swap endpoint builds
MaxQuarterLamports == 40 \* largest amountSol converted, in quarters of a lamport
MaxProgressAmount == 6  \* small amounts given to calculateProgress
FineTarget == 20000     \* a target large enough for progress to round to 100

\* ------------------------------------------------------ program constants
MinAmountPerInterval == 10

\* const SLIPPAGE_OPTIONS (bps of each option, in the order of the array)
SLIPPAGE_OPTIONS == <<50, 100, 150, 200>>

\* a signed transaction: the payload it signs and how many answers the call
\* of executeSwap had received when it was signed
NoSigned == [payload |-> 0, after |-> 0]

NULL == "null"
UNDEF == "undefined"

ExecIds == 1..NumExec
Batches == 1..NumBatches
SignedTxs == 1..NumSignedTxs
OutAmounts == (-1)..MaxOutAmount \ {0}
Slots == {LastValid - 1, LastValid}
TransferIds == 1..NumTransfer
TransferTxs == 1..NumTransferTxs
GoalIds == {"g1", "g2"}          \* g1 is the caller's goal, g2 is not theirs
Statuses == {"ACTIVE", "PAUSED", "COMPLETED"}

VARIABLES
  goal,              \* the row of table goals with id g1
  transactions,      \* table transactions, in insertion order
  chain,             \* network: signed transaction -> "none" | "ok" | "err"
  ex,                \* execute requests: position and local variables
  patch,             \* the PATCH request: position and local variables
  started,           \* execute requests accepted so far
  patched,           \* PATCH requests accepted so far
  increments,        \* batchId -> number of investedAmount increments applied
  internalTransfers, \* table internal_transfers, in insertion order
  cluster,           \* network: signed transfer -> "none" | "pending" | "ok" | "err"
  tr,                \* internal transfer requests: position and local variables
  transferStarted,   \* internal transfer requests accepted so far
  card,              \* the SwapCard component: its React state and executeSwap
  built,             \* swap endpoint: tolerance (bps) of every payload it built
  calc               \* a call of a pure function: its arguments and result

transferVars == <<internalTransfers, cluster, tr, transferStarted>>

clientVars == <<card, built, calc>>

vars == <<goal, transactions, chain, ex, patch, started, patched, increments,
          internalTransfers, cluster, tr, transferStarted, card, built, calc>>

\* ------------------------------------------------------------ pure helpers
RECURSIVE Pow10(_)
Pow10(n) == IF n = 0 THEN 1 ELSE 10 * Pow10(n - 1)

\* lib/tokens fromSmallestUnits: amount / 10^decimals, as a ledger value
fromSmallestUnits(amount, decimals) == amount * Pow10(LedgerScale - decimals)

\* the signature of a transaction is a function of its signed bytes
SignatureOf(tx) == 100 + tx

\* what the swap carried by a signed transaction really pays out on chain
ReceivedOnChain(tx) == fromSmallestUnits(tx, GoalDecimals)

\* goal.targetAmount of the modelled goal: 2 smallest units of its coin
GoalTarget == fromSmallestUnits(2, GoalDecimals)

\* the table with a same-state entry for ACTIVE
validTransitions_SelfLoop ==
  [s \in Statuses |-> CASE s = "ACTIVE" -> {"ACTIVE", "PAUSED"}
                        [] s = "PAUSED" -> {"ACTIVE"}
                        [] s = "COMPLETED" -> {}]

validTransitions ==
  [s \in Statuses |-> CASE s = "ACTIVE" -> {"PAUSED"}
                        [] s = "PAUSED" -> {"ACTIVE"}
                        [] s = "COMPLETED" -> {}]

\* the state-machine lookup left out: only a change of status is required
validateStatusTransition_NoTable(currentStatus, newStatus) ==
  newStatus # currentStatus

\* TRUE when validateStatusTransition returns, FALSE when it throws
validateStatusTransition(currentStatus, newStatus) ==
  /\ newStatus # "COMPLETED"
  /\ currentStatus \in DOMAIN validTransitions
  /\ newStatus \in validTransitions[currentStatus]

\* strict comparison instead of >=
targetReached_Strict(updatedGoal) ==
  updatedGoal.investedAmount > updatedGoal.targetAmount

\* the completion test the execute handler makes on the row it got back
targetReached(updatedGoal) ==
  updatedGoal.investedAmount >= updatedGoal.targetAmount

shouldAutoComplete(investedAmount, targetAmount) == investedAmount >= targetAmount

\* findFirst found nothing (id 0 is no row's id)
NoTransaction == [id |-> 0, goalId |-> NULL, batchId |-> 0, type |-> NULL,
                  txnHash |-> 0, amountCrypto |-> 0, state |-> NULL]

\* prisma.transaction.findFirst({ where: { batchId, type: 'SWAP' } })
FindSwap(batchId) ==
  LET hits == {i \in 1..Len(transactions) :
                 /\ transactions[i].batchId = batchId
                 /\ transactions[i].type = "SWAP"}
  IN IF hits = {} THEN NoTransaction
     ELSE transactions[CHOOSE i \in hits : \A j \in hits : i <= j]

\* ------------------------------------------------------------------- Init
NoBody == [goalId |-> NULL, batchId |-> 0, signedTransaction |-> 0,
           outAmount |-> 0]
NoResp == [status |-> 0, code |-> NULL, transactionHash |-> 0,
           retryable |-> FALSE]
\* updatedGoal: the fields of the returned row that the handler reads
NoGoal == [investedAmount |-> 0, targetAmount |-> 0]
Returned(row) == [investedAmount |-> row.investedAmount,
                  targetAmount |-> row.targetAmount]
IdleExec == [pc |-> "idle", body |-> NoBody, swapTransaction |-> NoTransaction,
             signature |-> 0, updatedGoal |-> NoGoal,
             lastValidBlockHeight |-> 0, currentBlockHeight |-> 0,
             resp |-> NoResp]
NoPatchBody == [status |-> UNDEF, amountPerInterval |-> 0, frequency |-> UNDEF]
IdlePatch == [pc |-> "idle", goalId |-> NULL, body |-> NoPatchBody,
              goalStatus |-> NULL, resp |-> NoResp]

\* what findUnique returned: the row's position (0: null) and its metadata
NoExisting == [id |-> 0, refreshCount |-> 0, error |-> NULL]
NoTransferResp == [status |-> 0, success |-> FALSE, retryable |-> FALSE,
                   code |-> NULL, batchId |-> 0, transfer |-> FALSE,
                   signature |-> 0]
IdleTransfer == [pc |-> "idle", mode |-> NULL, batchId |-> 0,
                 sourceAddress |-> 0,
                 signedTransaction |-> 0, existing |-> NoExisting,
                 sent |-> FALSE, resp |-> NoTransferResp]

\* SwapCard before any quote: useState defaults and no call of executeSwap
IdleCard == [pc |-> "idle", selectedSlippage |-> SLIPPAGE_OPTIONS[1],
             quote |-> 0, swapTransaction |-> 0, isExecuting |-> FALSE,
             error |-> FALSE, signedTransactionSerialized |-> NoSigned,
             newSwapTransaction |-> 0, newSignedTx |-> NoSigned,
             requests |-> <<>>, answer |-> NULL, lastRejected |-> 0,
             calls |-> 0]

NoCalc == [fn |-> NULL, args |-> <<>>, result |-> 0, done |-> FALSE]

InitBase ==
  /\ goal = [status |-> "ACTIVE", investedAmount |-> 0,
             targetAmount |-> GoalTarget, amountPerInterval |-> 10,
             frequency |-> "WEEKLY"]
  /\ transactions = <<>>
  /\ chain = [t \in SignedTxs |-> "none"]
  /\ ex = [r \in ExecIds |-> IdleExec]
  /\ patch = IdlePatch
  /\ started = 0
  /\ patched = 0
  /\ increments = [b \in Batches |-> 0]
  /\ internalTransfers = <<>>
  /\ cluster = [t \in TransferTxs |-> "none"]
  /\ tr = [t \in TransferIds |-> IdleTransfer]
  /\ transferStarted = 0
  /\ card = IdleCard
  /\ built = <<>>

Init == InitBase /\ calc = NoCalc

\* the JSON answers of the execute and PATCH handlers; none carries retryable
Reply(status, code, hash) ==
  [NoResp EXCEPT !.status = status, !.code = code, !.transactionHash = hash]

\* the handler answers; of its locals only the row returned by the increment
\* is read after this point (for the notification)
Finish(r, resp) ==
  ex' = [ex EXCEPT ![r] = [IdleExec EXCEPT !.pc = "done", !.resp = resp,
                                           !.updatedGoal = ex[r].updatedGoal]]

\* ------------------------------------------------ POST /api/invest/execute
ExecBodies ==
  [goalId : GoalIds, batchId : Batches \cup {0}, signedTransaction : SignedTxs,
   outAmount : OutAmounts]

\* requireAuth, request.json(), required-field check, prisma.goal.findFirst
\* and the two checks on its result
ExecReceive(r, bodies) ==
  /\ ex[r].pc = "idle"
  /\ started < MaxStarts
  /\ \E auth \in BOOLEAN, body \in bodies :
       IF ~auth
       THEN /\ Finish(r, Reply(401, "AUTH_ERROR", 0))
            /\ started' = started
       ELSE IF body.batchId = 0
       THEN /\ Finish(r, Reply(400, "VALIDATION_ERROR", 0))
            /\ started' = started
       ELSE IF body.goalId # "g1"
       THEN /\ Finish(r, Reply(400, "INVALID_WALLET", 0))
            /\ started' = started
       ELSE IF goal.status # "ACTIVE"
       THEN /\ Finish(r, Reply(400, "VALIDATION_ERROR", 0))
            /\ started' = started
       ELSE /\ ex' = [ex EXCEPT ![r].pc = "findSwap", ![r].body = body]
            /\ started' = started + 1
  /\ UNCHANGED transferVars
  /\ UNCHANGED clientVars
  /\ UNCHANGED <<goal, transactions, chain, patch, patched, increments>>

\* prisma.transaction.findFirst({ batchId, type: 'SWAP' })
ExecFindSwap(r) ==
  /\ ex[r].pc = "findSwap"
  /\ ex' = [ex EXCEPT ![r].pc = "submit",
                      ![r].swapTransaction = FindSwap(ex[r].body.batchId)]
  /\ UNCHANGED transferVars
  /\ UNCHANGED clientVars
  /\ UNCHANGED <<goal, transactions, chain, patch, started, patched, increments>>

\* submitAndConfirm: the block-height pre-check of the longer revision,
\* sendRawTransaction, which returns the signature, and confirmTransaction,
\* which resolves once the signature has a status; the status carries
\* value.err, which the handler does not read
submitAndConfirm(r) ==
  /\ ex[r].pc = "submit"
  /\ \E lastValidBlockHeight \in {0, LastValid}, currentBlockHeight \in Slots :
       LET tx == ex[r].body.signedTransaction IN
       IF lastValidBlockHeight # 0 /\ currentBlockHeight >= lastValidBlockHeight
       THEN /\ ex' = [ex EXCEPT ![r] = [IdleExec EXCEPT !.pc = "done",
                          !.resp = Reply(400, "VALIDATION_ERROR", 0),
                          !.lastValidBlockHeight = lastValidBlockHeight,
                          !.currentBlockHeight = currentBlockHeight]]
            /\ chain' = chain
       ELSE /\ ex' = [ex EXCEPT ![r].pc = "writeTx", ![r].signature = SignatureOf(tx)]
            /\ IF chain[tx] = "none"
               THEN \E result \in {"ok", "err"} : chain' = [chain EXCEPT ![tx] = result]
               ELSE chain' = chain
  /\ UNCHANGED transferVars
  /\ UNCHANGED clientVars
  /\ UNCHANGED <<goal, transactions, patch, started, patched, increments>>

outputAmount(r) == fromSmallestUnits(ex[r].body.outAmount, GoalDecimals)

\* prisma.transaction.update / prisma.transaction.create
ExecWriteTx(r) ==
  /\ ex[r].pc = "writeTx"
  /\ LET swapTransaction == ex[r].swapTransaction IN
       IF swapTransaction.id # 0
       THEN transactions' = [transactions EXCEPT
              ![swapTransaction.id].txnHash = ex[r].signature,
              ![swapTransaction.id].amountCrypto = outputAmount(r),
              ![swapTransaction.id].state = "SWAP_CONFIRMED"]
       ELSE transactions' = Append(transactions,
              [id |-> Len(transactions) + 1, goalId |-> "g1",
               batchId |-> ex[r].body.batchId, type |-> "SWAP",
               txnHash |-> ex[r].signature, amountCrypto |-> outputAmount(r),
               state |-> "SWAP_CONFIRMED"])
  /\ ex' = [ex EXCEPT ![r].pc = "increment"]
  /\ UNCHANGED transferVars
  /\ UNCHANGED clientVars
  /\ UNCHANGED <<goal, chain, patch, started, patched, increments>>

\* prisma.goal.update({ investedAmount: { increment: outputAmount } }); when
\* the target is not reached the handler goes straight to its 200 response
ExecIncrement(r) ==
  /\ ex[r].pc = "increment"
  /\ goal' = [goal EXCEPT !.investedAmount = @ + outputAmount(r)]
  /\ increments' = [increments EXCEPT ![ex[r].body.batchId] = @ + 1]
  /\ IF targetReached(Returned(goal'))
     THEN ex' = [ex EXCEPT ![r].pc = "complete", ![r].updatedGoal = Returned(goal')]
     ELSE ex' = [ex EXCEPT ![r] = [IdleExec EXCEPT !.pc = "done",
                   !.updatedGoal = Returned(goal'),
                   !.resp = Reply(200, "OK", ex[r].signature)]]
  /\ UNCHANGED transferVars
  /\ UNCHANGED clientVars
  /\ UNCHANGED <<transactions, chain, patch, started, patched>>

\* prisma.goal.update({ status: 'COMPLETED' }) and the 200 response
ExecComplete(r) ==
  /\ ex[r].pc = "complete"
  /\ goal' = [goal EXCEPT !.status = "COMPLETED"]
  /\ Finish(r, Reply(200, "OK", ex[r].signature))
  /\ UNCHANGED transferVars
  /\ UNCHANGED clientVars
  /\ UNCHANGED <<transactions, chain, patch, started, patched, increments>>

\* any awaited database or network call rejects (or the request is cut
\* short): the catch block answers 500 and nothing written is undone
ExecThrow(r) ==
  /\ ex[r].pc \in {"findSwap", "submit", "writeTx", "increment", "complete"}
  /\ Finish(r, Reply(500, "INTERNAL_ERROR", 0))
  /\ UNCHANGED transferVars
  /\ UNCHANGED clientVars
  /\ UNCHANGED <<goal, transactions, chain, patch, started, patched, increments>>

\* the response is delivered; the handler's locals are gone
ExecReturn(r) ==
  /\ ex[r].pc = "done"
  /\ ex' = [ex EXCEPT ![r] = IdleExec]
  /\ UNCHANGED transferVars
  /\ UNCHANGED clientVars
  /\ UNCHANGED <<goal, transactions, chain, patch, started, patched, increments>>

\* --------------------------------------------------- PATCH /api/goals/:id
\* request bodies; amountPerInterval 0 stands for an absent field
PatchBodies ==
  [status : Statuses \cup {UNDEF}, amountPerInterval : {0, 5, 20},
   frequency : {UNDEF, "DAILY", "HOURLY"}]

\* requireAuth, findFirst, the completed-goal check and the field checks
PatchRead ==
  /\ patch.pc = "idle"
  /\ patched < MaxPatches
  /\ patched' = patched + 1
  /\ \E auth \in BOOLEAN, goalId \in GoalIds, body \in PatchBodies :
       LET p == [patch EXCEPT !.goalId = goalId, !.body = body,
                              !.goalStatus = goal.status]
           Reject(status, code) ==
             patch' = [p EXCEPT !.pc = "done", !.resp = Reply(status, code, 0)]
       IN
       IF ~auth
       THEN patch' = [patch EXCEPT !.pc = "done", !.resp = Reply(401, "AUTH_ERROR", 0)]
       ELSE IF goalId # "g1"
       THEN patch' = [patch EXCEPT !.pc = "done", !.goalId = goalId,
                                   !.resp = Reply(404, "GOAL_NOT_FOUND", 0)]
       ELSE IF goal.status = "COMPLETED" THEN Reject(400, "GOAL_ALREADY_COMPLETED")
       ELSE IF body.amountPerInterval # 0 /\ body.amountPerInterval < MinAmountPerInterval
            THEN Reject(400, "INVALID_AMOUNT")
       ELSE IF body.frequency # UNDEF /\ body.frequency \notin {"DAILY", "WEEKLY", "MONTHLY"}
            THEN Reject(400, "INVALID_FREQUENCY")
       ELSE IF body.status # UNDEF /\ ~validateStatusTransition(goal.status, body.status)
            THEN Reject(400, "INVALID_STATUS_TRANSITION")
       ELSE patch' = [p EXCEPT !.pc = "update"]
  /\ UNCHANGED transferVars
  /\ UNCHANGED clientVars
  /\ UNCHANGED <<goal, transactions, chain, ex, started, increments>>

\* the row after prisma.goal.update with the fields collected in updates
Updated(g, updates) ==
  [g EXCEPT !.status = IF updates.status = UNDEF THEN @ ELSE updates.status,
            !.amountPerInterval = IF updates.amountPerInterval = 0 THEN @
                                  ELSE updates.amountPerInterval,
            !.frequency = IF updates.frequency = UNDEF THEN @ ELSE updates.frequency]

\* prisma.goal.update({ where: { id }, data: updates }) and the 200 response
PatchUpdate ==
  /\ patch.pc = "update"
  /\ goal' = Updated(goal, patch.body)
  /\ patch' = [patch EXCEPT !.pc = "done", !.resp = Reply(200, "OK", 0)]
  /\ UNCHANGED transferVars
  /\ UNCHANGED clientVars
  /\ UNCHANGED <<transactions, chain, ex, started, patched, increments>>

\* prisma.goal.update rejects: the catch block answers 500
PatchThrow ==
  /\ patch.pc = "update"
  /\ patch' = [patch EXCEPT !.pc = "done", !.resp = Reply(500, "INTERNAL_ERROR", 0)]
  /\ UNCHANGED transferVars
  /\ UNCHANGED clientVars
  /\ UNCHANGED <<goal, transactions, chain, ex, started, patched, increments>>

\* the response is delivered
PatchReturn ==
  /\ patch.pc = "done"
  /\ patch' = IdlePatch
  /\ UNCHANGED transferVars
  /\ UNCHANGED clientVars
  /\ UNCHANGED <<goal, transactions, chain, ex, started, patched, increments>>

\* ------------------------------------------- POST internal transfer (admin)
\* prisma.internalTransfer.findUnique({ where: { batchId } })
FindTransfer(batchId) ==
  LET hits == {i \in 1..Len(internalTransfers) :
                 internalTransfers[i].batchId = batchId}
  IN IF hits = {} THEN 0 ELSE CHOOSE i \in hits : \A j \in hits : i <= j

Existing(batchId) ==
  LET i == FindTransfer(batchId) IN
  IF i = 0 THEN NoExisting
  ELSE [id |-> i, refreshCount |-> internalTransfers[i].refreshCount,
        error |-> internalTransfers[i].error]

\* the table without its unique index: every insert is accepted
internal_transfers_batch_id_key_Dropped(batchId) == TRUE

\* CREATE UNIQUE INDEX internal_transfers_batch_id_key: an insert is accepted
\* only when no row has the batch_id
internal_transfers_batch_id_key(batchId) == FindTransfer(batchId) = 0

\* const statusCode = error.statusCode || 500
statusCode(error) ==
  CASE error = "AuthenticationError" -> 401
    [] error = "AuthorizationError" -> 403
    [] error = "ValidationError" -> 400
    [] OTHER -> 500

\* the catch block of POST: { success: false, ...formatErrorResponse(error) }
TransferError(error) ==
  [NoTransferResp EXCEPT !.status = statusCode(error), !.code = error]

TransferFinish(t, resp) ==
  tr' = [tr EXCEPT ![t] = [IdleTransfer EXCEPT !.pc = "done", !.resp = resp,
                                               !.batchId = tr[t].batchId,
                                               !.sent = tr[t].sent]]

\* wallet addresses: the source wallet resolved at prepare time, the fee
\* payer of a signed transaction, body.expectedFromAddress (0: not supplied)
Addresses == 1..NumAddresses

\* message.staticAccountKeys[0]: the wallet that signed transaction tx
feePayer(tx) == tx

\* body.mode, or what it defaults to; "other" is any unsupported mode
TransferModes == {"prepare", "submit", "other"}

\* requireAuth, ensureAdmin, request.json(), the mode check; in prepare mode
\* the body checks, resolveSourceWallet, buildUnsignedTransfer and the
\* findUnique of upsertTransferRecord; in submit mode the checks on
\* signedTransaction and expectedFromAddress
TransferReceive(t, modes) ==
  /\ tr[t].pc = "idle"
  /\ transferStarted < MaxTransferStarts
  /\ \E auth \in {"ok", "AuthenticationError", "AuthorizationError"},
        mode \in modes, batchId \in Batches, valid \in BOOLEAN :
       LET Reject(error) ==
             /\ tr' = [tr EXCEPT ![t] = [IdleTransfer EXCEPT !.pc = "done",
                          !.batchId = batchId, !.resp = TransferError(error)]]
             /\ transferStarted' = transferStarted
       IN
       IF auth # "ok" THEN Reject(auth)
       ELSE IF mode = "other" \/ ~valid THEN Reject("ValidationError")
       ELSE IF mode = "prepare"
       THEN \E sourceAddress \in Addresses :
              /\ transferStarted' = transferStarted + 1
              /\ tr' = [tr EXCEPT ![t].pc = "upsert", ![t].mode = mode,
                          ![t].batchId = batchId,
                          ![t].sourceAddress = sourceAddress,
                          ![t].existing = Existing(batchId)]
       ELSE \E tx \in TransferTxs, expectedFromAddress \in Addresses \cup {0} :
              IF expectedFromAddress # 0 /\ expectedFromAddress # feePayer(tx)
              THEN Reject("ValidationError")
              ELSE /\ transferStarted' = transferStarted + 1
                   /\ tr' = [tr EXCEPT ![t].pc = "send", ![t].mode = mode,
                               ![t].batchId = batchId,
                               ![t].signedTransaction = tx]
  /\ UNCHANGED <<internalTransfers, cluster>>
  /\ UNCHANGED <<goal, transactions, chain, ex, patch, started, patched, increments>>
  /\ UNCHANGED clientVars

\* upsertTransferRecord, after its findUnique: update when a row was found,
\* create otherwise; then the 200 response with the unsigned transfer
upsertTransferRecord(t) ==
  /\ tr[t].pc = "upsert"
  /\ LET b == tr[t].batchId
         existing == tr[t].existing
         i == FindTransfer(b)
         ok == [NoTransferResp EXCEPT !.status = 200, !.success = TRUE,
                                      !.batchId = b, !.transfer = TRUE]
     IN
     IF existing.id # 0
     THEN /\ internalTransfers' = [internalTransfers EXCEPT
                ![i].state = "PREPARED",
                ![i].sourceAddress = tr[t].sourceAddress,
                ![i].refreshCount = existing.refreshCount,
                ![i].error = existing.error]
          /\ TransferFinish(t, ok)
     ELSE IF internal_transfers_batch_id_key(b)
     THEN /\ internalTransfers' = Append(internalTransfers,
                [batchId |-> b, state |-> "PREPARED", signature |-> 0,
                 sourceAddress |-> tr[t].sourceAddress,
                 refreshCount |-> 0, error |-> NULL])
          /\ TransferFinish(t, ok)
     ELSE /\ internalTransfers' = internalTransfers
          /\ TransferFinish(t, TransferError("PrismaClientKnownRequestError"))
  /\ UNCHANGED <<cluster, transferStarted>>
  /\ UNCHANGED <<goal, transactions, chain, ex, patch, started, patched, increments>>
  /\ UNCHANGED clientVars

\* the errors sendRawTransaction can reject with ("blockhash not found" and
\* the like, or anything else)
SendErrors == {"TransactionExpiredBlockheightExceededError", "SendTransactionError"}

isBlockhashExpiredError(error) ==
  error = "TransactionExpiredBlockheightExceededError"

\* submitTransaction inside the try of handleSubmitMode: sendRawTransaction
\* resolves with the signature (the cluster has taken the transaction) or
\* rejects; the catch block chooses between refresh and failure
submitTransaction(t) ==
  /\ tr[t].pc = "send"
  /\ LET tx == tr[t].signedTransaction IN
     \/ /\ cluster' = [cluster EXCEPT ![tx] = IF @ = "none" THEN "pending" ELSE @]
        /\ tr' = [tr EXCEPT ![t].pc = "markSubmitted", ![t].sent = TRUE]
     \/ \E error \in SendErrors :
          /\ cluster' = cluster
          /\ tr' = [tr EXCEPT ![t].sent = TRUE,
                     ![t].pc = IF isBlockhashExpiredError(error)
                               THEN "refresh" ELSE "markFailed"]
  /\ UNCHANGED <<internalTransfers, transferStarted>>
  /\ UNCHANGED <<goal, transactions, chain, ex, patch, started, patched, increments>>
  /\ UNCHANGED clientVars

\* the findUnique of markTransferSubmitted, refreshExpiredTransfer or
\* markTransferFailed; refreshExpiredTransfer throws when there is no row
TransferFind(t) ==
  /\ tr[t].pc \in {"markSubmitted", "refresh", "markFailed"}
  /\ LET existing == Existing(tr[t].batchId) IN
     IF tr[t].pc = "refresh" /\ existing.id = 0
     THEN TransferFinish(t, TransferError("ValidationError"))
     ELSE tr' = [tr EXCEPT ![t].existing = existing,
                   ![t].pc = CASE tr[t].pc = "markSubmitted" -> "writeSubmitted"
                               [] tr[t].pc = "refresh" -> "writeRefresh"
                               [] tr[t].pc = "markFailed" -> "writeFailed"]
  /\ UNCHANGED <<internalTransfers, cluster, transferStarted>>
  /\ UNCHANGED <<goal, transactions, chain, ex, patch, started, patched, increments>>
  /\ UNCHANGED clientVars

\* prisma.internalTransfer.update({ where: { batchId }, data }) on the table;
\* Prisma rejects when no row has the batchId
UpdateTransfer(batchId, data) ==
  LET i == FindTransfer(batchId) IN
  [internalTransfers EXCEPT ![i] = [f \in DOMAIN @ |->
     IF f \in DOMAIN data THEN data[f] ELSE @[f]]]

\* markTransferSubmitted: the update, whose rejection is caught and logged,
\* and the 201 response
markTransferSubmitted(t) ==
  /\ tr[t].pc = "writeSubmitted"
  /\ LET b == tr[t].batchId
         signature == SignatureOf(tr[t].signedTransaction)
     IN
     /\ internalTransfers' =
          IF FindTransfer(b) = 0 THEN internalTransfers
          ELSE UpdateTransfer(b, [state |-> "SUBMITTED", signature |-> signature,
                                  refreshCount |-> tr[t].existing.refreshCount,
                                  error |-> tr[t].existing.error])
     /\ TransferFinish(t, [NoTransferResp EXCEPT !.status = 201, !.success = TRUE,
                             !.batchId = b, !.signature = signature])
  /\ UNCHANGED <<cluster, transferStarted>>
  /\ UNCHANGED <<goal, transactions, chain, ex, patch, started, patched, increments>>
  /\ UNCHANGED clientVars

\* refreshExpiredTransfer after its findUnique: buildUnsignedTransfer and the
\* update; then the 409 response of handleSubmitMode
refreshExpiredTransfer(t) ==
  /\ tr[t].pc = "writeRefresh"
  /\ LET b == tr[t].batchId IN
     /\ internalTransfers' =
          UpdateTransfer(b, [state |-> "PREPARED", signature |-> 0,
                             refreshCount |-> tr[t].existing.refreshCount + 1,
                             error |-> tr[t].existing.error])
     /\ TransferFinish(t, [NoTransferResp EXCEPT !.status = 409, !.retryable = TRUE,
                             !.code = "BLOCKHASH_EXPIRED", !.batchId = b,
                             !.transfer = TRUE])
  /\ UNCHANGED <<cluster, transferStarted>>
  /\ UNCHANGED <<goal, transactions, chain, ex, patch, started, patched, increments>>
  /\ UNCHANGED clientVars

\* markTransferFailed: the update, whose rejection is caught and logged; the
\* send error is thrown again and answered by the catch block of POST
markTransferFailed(t) ==
  /\ tr[t].pc = "writeFailed"
  /\ LET b == tr[t].batchId IN
     /\ internalTransfers' =
          IF FindTransfer(b) = 0 THEN internalTransfers
          ELSE UpdateTransfer(b, [state |-> "FAILED",
                                  refreshCount |-> tr[t].existing.refreshCount,
                                  error |-> "SendTransactionError"])
     /\ TransferFinish(t, TransferError("SendTransactionError"))
  /\ UNCHANGED <<cluster, transferStarted>>
  /\ UNCHANGED <<goal, transactions, chain, ex, patch, started, patched, increments>>
  /\ UNCHANGED clientVars

\* the response is delivered
TransferReturn(t) ==
  /\ tr[t].pc = "done"
  /\ tr' = [tr EXCEPT ![t] = IdleTransfer]
  /\ UNCHANGED <<internalTransfers, cluster, transferStarted>>
  /\ UNCHANGED <<goal, transactions, chain, ex, patch, started, patched, increments>>
  /\ UNCHANGED clientVars

\* the cluster processes a transaction it has taken: it lands or it fails
ClusterProcess(tx) ==
  /\ cluster[tx] = "pending"
  /\ \E result \in {"ok", "err"} : cluster' = [cluster EXCEPT ![tx] = result]
  /\ UNCHANGED <<internalTransfers, tr, transferStarted>>
  /\ UNCHANGED <<goal, transactions, chain, ex, patch, started, patched, increments>>
  /\ UNCHANGED clientVars

\* ------------------------------------------------ SwapCard (client component)
\* the swap endpoint's escalation: the ladder step after bps, 0 at the ceiling
NextStep(bps) ==
  LET at == {i \in 1..Len(SLIPPAGE_OPTIONS) - 1 : SLIPPAGE_OPTIONS[i] = bps}
  IN IF at = {} THEN 0 ELSE SLIPPAGE_OPTIONS[(CHOOSE i \in at : TRUE) + 1]

\* what the swap endpoint can answer to an execute request
SwapAnswers == {"success", "SLIPPAGE_EXCEEDED", "QUOTE_EXPIRED", "error"}

\* catch and finally of executeSwap, or its return after a success
CardFinish(c, failed) ==
  card' = [c EXCEPT !.pc = "idle", !.isExecuting = FALSE, !.error = failed,
                    !.signedTransactionSerialized = NoSigned,
                    !.newSwapTransaction = 0, !.newSignedTx = NoSigned]

\* the success path: the form is reset
CardReset(c) ==
  [c EXCEPT !.quote = 0, !.swapTransaction = 0, !.lastRejected = 0]

\* onClick of a slippage option
setSelectedSlippage ==
  /\ card.pc = "idle"
  /\ \E i \in 1..Len(SLIPPAGE_OPTIONS) :
       /\ SLIPPAGE_OPTIONS[i] # card.selectedSlippage
       /\ card' = [card EXCEPT !.selectedSlippage = SLIPPAGE_OPTIONS[i],
                               !.lastRejected = 0]
  /\ UNCHANGED <<built, calc>>
  /\ UNCHANGED transferVars
  /\ UNCHANGED <<goal, transactions, chain, ex, patch, started, patched, increments>>

\* getQuote: the quote request at selectedSlippage and its answer
getQuote ==
  /\ card.pc = "idle"
  /\ Len(built) < MaxPayloads
  /\ \/ /\ built' = Append(built, card.selectedSlippage)
        /\ card' = [card EXCEPT !.quote = Len(built) + 1,
                                !.swapTransaction = Len(built) + 1,
                                !.error = FALSE]
     \/ /\ built' = built
        /\ card.quote # 0
        /\ card' = [card EXCEPT !.quote = 0, !.swapTransaction = 0, !.error = TRUE]
  /\ UNCHANGED calc
  /\ UNCHANGED transferVars
  /\ UNCHANGED <<goal, transactions, chain, ex, patch, started, patched, increments>>

\* executeSwap up to its first fetch: the guard, setIsExecuting(true) and
\* signSolanaTransaction(wallet, swapTransaction)
executeSwap ==
  /\ card.pc = "idle"
  /\ card.quote # 0
  /\ card.calls < MaxCalls
  /\ \E wallet \in BOOLEAN, signs \in BOOLEAN :
       LET c == [card EXCEPT !.calls = @ + 1, !.requests = <<>>,
                             !.answer = NULL] IN
       IF card.swapTransaction = 0 \/ ~wallet
       THEN card' = [c EXCEPT !.error = TRUE]
       ELSE IF ~signs THEN CardFinish(c, TRUE)
       ELSE card' = [c EXCEPT !.pc = "execute", !.isExecuting = TRUE,
                       !.error = FALSE,
                       !.signedTransactionSerialized =
                         [payload |-> card.swapTransaction, after |-> 0]]
  /\ UNCHANGED <<built, calc>>
  /\ UNCHANGED transferVars
  /\ UNCHANGED <<goal, transactions, chain, ex, patch, started, patched, increments>>

\* the first fetch of /api/swap/execute and the handling of its answer
CardExecute ==
  /\ card.pc = "execute"
  /\ LET signed == card.signedTransactionSerialized
         bps == built[signed.payload]
         c0 == [card EXCEPT !.requests = Append(@, signed)]
         new == Len(built) + 1
     IN
     \E answer \in SwapAnswers :
       LET c == [c0 EXCEPT !.answer = answer] IN
       CASE answer = "success" ->
              /\ CardFinish(CardReset(c), FALSE)
              /\ built' = built
         [] answer = "SLIPPAGE_EXCEEDED" /\ NextStep(bps) # 0 ->
              /\ Len(built) < MaxPayloads
              /\ built' = Append(built, NextStep(bps))
              /\ card' = [c EXCEPT !.pc = "signRetry", !.quote = new,
                            !.swapTransaction = new, !.newSwapTransaction = new,
                            !.selectedSlippage = NextStep(bps),
                            !.lastRejected = bps]
         [] answer = "SLIPPAGE_EXCEEDED" /\ NextStep(bps) = 0 ->
              /\ CardFinish([c EXCEPT !.lastRejected = bps], TRUE)
              /\ built' = built
         [] answer = "QUOTE_EXPIRED" ->
              /\ Len(built) < MaxPayloads
              /\ built' = Append(built, bps)
              /\ card' = [c EXCEPT !.pc = "signRetry", !.quote = new,
                            !.swapTransaction = new, !.newSwapTransaction = new]
         [] answer = "error" ->
              /\ CardFinish(c, TRUE)
              /\ built' = built
  /\ UNCHANGED calc
  /\ UNCHANGED transferVars
  /\ UNCHANGED <<goal, transactions, chain, ex, patch, started, patched, increments>>

\* signSolanaTransaction(wallet, data.newSwapTransaction)
CardSignRetry ==
  /\ card.pc = "signRetry"
  /\ \E signs \in BOOLEAN :
       IF ~signs THEN CardFinish(card, TRUE)
       ELSE card' = [card EXCEPT !.pc = "retry",
                       !.newSignedTx = [payload |-> card.newSwapTransaction,
                                        after |-> Len(card.requests)]]
  /\ UNCHANGED <<built, calc>>
  /\ UNCHANGED transferVars
  /\ UNCHANGED <<goal, transactions, chain, ex, patch, started, patched, increments>>

\* the first signature sent again
RetryTransaction_Resubmit(c) == c.signedTransactionSerialized

\* body.signedTransaction of the retry
RetryTransaction(c) == c.newSignedTx

\* the second fetch of /api/swap/execute: success, or 'Retry failed'
CardRetry ==
  /\ card.pc = "retry"
  /\ LET signed == RetryTransaction(card)
         c0 == [card EXCEPT !.requests = Append(@, signed)]
     IN
     \E answer \in SwapAnswers :
       LET c == [c0 EXCEPT !.answer = answer] IN
       IF answer = "success" THEN CardFinish(CardReset(c), FALSE)
       ELSE IF answer = "SLIPPAGE_EXCEEDED"
       THEN CardFinish([c EXCEPT !.lastRejected = built[signed.payload]], TRUE)
       ELSE CardFinish(c, TRUE)
  /\ UNCHANGED <<built, calc>>
  /\ UNCHANGED transferVars
  /\ UNCHANGED <<goal, transactions, chain, ex, patch, started, patched, increments>>

NextCard ==
  \/ setSelectedSlippage
  \/ getQuote
  \/ executeSwap
  \/ CardExecute
  \/ CardSignRetry
  \/ CardRetry

SpecCard == Init /\ [][NextCard]_vars

\* --------------------------------------------------------- pure functions
\* amounts of SOL are given in quarters of a lamport, so that
\* sol * LAMPORTS_PER_SOL is args[1] / QuartersPerLamport exactly
QuartersPerLamport == 4

Floor(n, d) == n \div d

\* Math.round: the nearest integer, halves upwards
Round(n, d) == (2 * n + d) \div (2 * d)

\* handlePrepareMode: Math.round(solAmount * LAMPORTS_PER_SOL); 0 stands for
\* the ValidationError thrown when the result is not positive
prepareLamports(quarters) ==
  LET lamports == Round(quarters, QuartersPerLamport) IN
  IF quarters <= 0 \/ lamports <= 0 THEN 0 ELSE lamports

\* solToLamports: Math.floor(sol * LAMPORTS_PER_SOL)
solToLamports(quarters) == Floor(quarters, QuartersPerLamport)

LamportCalls ==
  [fn : {"prepareLamports", "solToLamports"}, args : {<<q>> : q \in 1..MaxQuarterLamports},
   result : {0}, done : {FALSE}]

CalcLamports ==
  /\ ~calc.done
  /\ calc.fn = "prepareLamports"
  /\ calc' = [calc EXCEPT !.result = prepareLamports(calc.args[1]), !.done = TRUE]
  /\ UNCHANGED <<card, built>>
  /\ UNCHANGED transferVars
  /\ UNCHANGED <<goal, transactions, chain, ex, patch, started, patched, increments>>

CalcSolToLamports ==
  /\ ~calc.done
  /\ calc.fn = "solToLamports"
  /\ calc' = [calc EXCEPT !.result = solToLamports(calc.args[1]), !.done = TRUE]
  /\ UNCHANGED <<card, built>>
  /\ UNCHANGED transferVars
  /\ UNCHANGED <<goal, transactions, chain, ex, patch, started, patched, increments>>

InitLamports == InitBase /\ calc \in LamportCalls

NextLamports == CalcLamports \/ CalcSolToLamports

SpecLamports == InitLamports /\ [][NextLamports]_vars

\* lib/goalValidation.js. Progress is returned in hundredths of a percent:
\* Math.round(progress * 100) / 100 is Round(invested * 10000, target) / 100
Min(a, b) == IF a <= b THEN a ELSE b

calculateProgress(investedAmount, targetAmount) ==
  IF targetAmount <= 0 THEN 0
  ELSE Min(Round(investedAmount * 10000, targetAmount), 10000)

\* the statuses a caller can ask for: the known ones, an unknown one, none
RequestedStatuses == Statuses \cup {"ARCHIVED", UNDEF}

TransitionCalls ==
  [fn : {"validateStatusTransition"},
   args : {<<c, n>> : c \in Statuses, n \in RequestedStatuses},
   result : {0}, done : {FALSE}]

ProgressCalls ==
  [fn : {"calculateProgress"},
   args : {<<i, t>> : i \in (0..MaxProgressAmount) \cup {FineTarget - 1, FineTarget},
                      t \in (0..MaxProgressAmount) \cup {FineTarget}},
   result : {0}, done : {FALSE}]

CalcTransition ==
  /\ ~calc.done
  /\ calc.fn = "validateStatusTransition"
  /\ calc' = [calc EXCEPT !.done = TRUE,
                !.result = validateStatusTransition(calc.args[1], calc.args[2])]
  /\ UNCHANGED <<card, built>>
  /\ UNCHANGED transferVars
  /\ UNCHANGED <<goal, transactions, chain, ex, patch, started, patched, increments>>

CalcProgress ==
  /\ ~calc.done
  /\ calc.fn = "calculateProgress"
  /\ calc' = [calc EXCEPT !.done = TRUE,
                !.result = calculateProgress(calc.args[1], calc.args[2])]
  /\ UNCHANGED <<card, built>>
  /\ UNCHANGED transferVars
  /\ UNCHANGED <<goal, transactions, chain, ex, patch, started, patched, increments>>

InitValidation ==
  /\ InitBase
  /\ \/ calc \in TransitionCalls
     \/ calc \in ProgressCalls

NextValidation == CalcTransition \/ CalcProgress

SpecValidation == InitValidation /\ [][NextValidation]_vars

\* ------------------------------------------------------------------- Next
\* concurrent execute requests against the ledger
Next ==
  \/ \E r \in ExecIds : ExecReceive(r, ExecBodies)
  \/ \E r \in ExecIds : ExecFindSwap(r)
  \/ \E r \in ExecIds : submitAndConfirm(r)
  \/ \E r \in ExecIds : ExecWriteTx(r)
  \/ \E r \in ExecIds : ExecIncrement(r)
  \/ \E r \in ExecIds : ExecComplete(r)
  \/ \E r \in ExecIds : ExecThrow(r)
  \/ \E r \in ExecIds : ExecReturn(r)

Spec == Init /\ [][Next]_vars

\* one execute request at a time, all for one batch and one signed
\* transaction, interleaved with PATCH requests
OneBatchBodies ==
  {body \in ExecBodies : body.batchId \in {0, 1} /\ body.signedTransaction = 1}

NextGoal ==
  \/ started < MaxGoalStarts /\ ExecReceive(1, OneBatchBodies)
  \/ ExecFindSwap(1)
  \/ submitAndConfirm(1)
  \/ ExecWriteTx(1)
  \/ ExecIncrement(1)
  \/ ExecComplete(1)
  \/ ExecThrow(1)
  \/ ExecReturn(1)
  \/ PatchRead
  \/ PatchUpdate
  \/ PatchThrow
  \/ PatchReturn

SpecGoal == Init /\ [][NextGoal]_vars

\* concurrent internal transfer requests against table internal_transfers
TransferStep ==
  \/ \E t \in TransferIds : TransferReceive(t, TransferModes)
  \/ \E t \in TransferIds : upsertTransferRecord(t)
  \/ \E t \in TransferIds : submitTransaction(t)
  \/ \E t \in TransferIds : TransferFind(t)
  \/ \E t \in TransferIds : markTransferSubmitted(t)
  \/ \E t \in TransferIds : refreshExpiredTransfer(t)
  \/ \E t \in TransferIds : markTransferFailed(t)
  \/ \E t \in TransferIds : TransferReturn(t)

NextTransfer ==
  \/ TransferStep
  \/ \E tx \in TransferTxs : ClusterProcess(tx)

SpecTransfer == Init /\ [][NextTransfer]_vars

\* concurrent prepare requests only
NextPrepare ==
  \/ \E t \in TransferIds :
       transferStarted < MaxPrepareStarts /\ TransferReceive(t, TransferModes \ {"submit"})
  \/ \E t \in TransferIds : upsertTransferRecord(t)
  \/ \E t \in TransferIds : TransferReturn(t)

SpecPrepare == Init /\ [][NextPrepare]_vars

\* a handler that has started keeps running and the cluster processes what
\* it has taken; no client is obliged to send a request
SpecTransferFair ==
  /\ SpecTransfer
  /\ \A t \in TransferIds :
       /\ WF_vars(upsertTransferRecord(t))
       /\ WF_vars(submitTransaction(t))
       /\ WF_vars(TransferFind(t))
       /\ WF_vars(markTransferSubmitted(t))
       /\ WF_vars(refreshExpiredTransfer(t))
       /\ WF_vars(markTransferFailed(t))
       /\ WF_vars(TransferReturn(t))
  /\ \A tx \in TransferTxs : WF_vars(ClusterProcess(tx))

TypeOK ==
  /\ goal.status \in Statuses
  /\ \A r \in ExecIds : ex[r].pc \in {"idle", "findSwap", "submit",
        "writeTx", "increment", "complete", "done"}

\* ----------------------------------------------------------------- claims
Confirmed(t) == t.state = "SWAP_CONFIRMED" /\ t.txnHash # 0

RECURSIVE SumConfirmed(_)
SumConfirmed(i) ==
  IF i = 0 THEN 0
  ELSE (IF Confirmed(transactions[i]) THEN transactions[i].amountCrypto ELSE 0)
       + SumConfirmed(i - 1)

\* C1: a request that found its batch's SWAP record already SWAP_CONFIRMED
\* performs no network submission and writes neither the record nor the
\* goal, i.e. it never gets past the submission.
C1_ReexecuteConfirmedIsNoOp ==
  \A r \in ExecIds :
    ex[r].swapTransaction.state = "SWAP_CONFIRMED"
      => ex[r].pc \notin {"writeTx", "increment", "complete"}

\* C2: for every batchId the goal's investedAmount is incremented at most
\* once, whatever requests carry that batchId.
C2_IncrementAtMostOncePerBatch ==
  \A b \in Batches : increments[b] <= 1

\* C3: in every reachable state the goal's investedAmount is exactly the sum
\* of the amounts of the confirmed SWAP records (a record is confirmed if and
\* only if its amount has been added to the goal).
C3_StampAndIncrementAtomic ==
  goal.investedAmount = SumConfirmed(Len(transactions))

\* C4: in every reachable state, status = COMPLETED if and only if
\* investedAmount >= targetAmount.
C4_CompletedIffTargetReached ==
  (goal.status = "COMPLETED") <=> (goal.investedAmount >= goal.targetAmount)

\* C5: once the persisted status is COMPLETED no step changes it.
C5_CompletedIsTerminal ==
  [][goal.status = "COMPLETED" => goal'.status = "COMPLETED"]_vars

\* the case of C6: an authenticated PATCH on the caller's goal that asks for
\* COMPLETED, or asks for a status on a goal it read as COMPLETED
AsksForbiddenStatus(p) ==
  /\ p.goalId = "g1"
  /\ \/ p.body.status = "COMPLETED"
     \/ p.body.status # UNDEF /\ p.goalStatus = "COMPLETED"

PatchAnswers == patch.pc # "done" /\ patch'.pc = "done"

OtherFieldsPass(p) ==
  /\ p.body.amountPerInterval = 0 \/ p.body.amountPerInterval >= MinAmountPerInterval
  /\ p.body.frequency \in {UNDEF, "DAILY", "WEEKLY", "MONTHLY"}

\* C6 (as claimed): such a request is answered with the invalid-transition
\* error and the goal row is left as it was; stated here only for requests
\* whose amountPerInterval and frequency are absent or valid.
C6_RejectedAsInvalidTransition ==
  [][PatchAnswers /\ AsksForbiddenStatus(patch') /\ OtherFieldsPass(patch')
       => patch'.resp.code = "INVALID_STATUS_TRANSITION" /\ goal' = goal]_vars

\* the error the handler's checks give, in the order the handler makes them
PatchRejection(p) ==
  IF p.goalStatus = "COMPLETED" THEN "GOAL_ALREADY_COMPLETED"
  ELSE IF p.body.amountPerInterval # 0 /\ p.body.amountPerInterval < MinAmountPerInterval
       THEN "INVALID_AMOUNT"
  ELSE IF p.body.frequency \notin {UNDEF, "DAILY", "WEEKLY", "MONTHLY"}
       THEN "INVALID_FREQUENCY"
  ELSE "INVALID_STATUS_TRANSITION"

\* C6 (amended): such a request is always rejected and the goal row is left
\* as it was; the error is GOAL_ALREADY_COMPLETED when the goal is COMPLETED,
\* the amount or frequency error when that field of the same request is
\* invalid, and the invalid-transition error otherwise.
C6_RejectedWithoutWrite ==
  [][PatchAnswers /\ AsksForbiddenStatus(patch')
       => patch'.resp.code = PatchRejection(patch') /\ goal' = goal]_vars

C6_Witness ==
  /\ patch.pc = "done"
  /\ AsksForbiddenStatus(patch)
  /\ patch.goalStatus = "COMPLETED"
  /\ patch.body.status = "PAUSED"
  /\ patch.resp.code = "GOAL_ALREADY_COMPLETED"

\* C7: the step that ends a successful execute request has set the status to
\* COMPLETED exactly when the investedAmount returned by the increment is
\* >= targetAmount; no other step of an execute request changes the status.
C7_CompletesIffTargetReachedAfterIncrement ==
  [][\A r \in ExecIds :
       /\ (ex[r].pc # "done" /\ ex'[r].pc = "done" /\ ex'[r].resp.status = 200)
            => LET u == ex'[r].updatedGoal IN
               IF u.investedAmount >= u.targetAmount
               THEN ex[r].pc = "complete" /\ goal'.status = "COMPLETED"
               ELSE ex[r].pc = "increment" /\ goal'.status = goal.status
       /\ (ex'[r] # ex[r] /\ ex[r].pc = "increment")
            => /\ ex'[r].pc \in {"complete", "done"}
               /\ ex'[r].pc = "complete" =>
                    ex'[r].updatedGoal.investedAmount = goal'.investedAmount
       /\ (ex'[r] # ex[r] /\ ex[r].pc # "complete") => goal'.status = goal.status
    ]_vars

C7_Witness ==
  \E r \in ExecIds :
    /\ ex[r].pc = "done"
    /\ ex[r].resp.status = 200
    /\ ex[r].updatedGoal.investedAmount = goal.targetAmount
    /\ goal.status = "COMPLETED"

\* C8: no step lowers the goal's investedAmount.
C8_InvestedAmountNonDecreasing ==
  [][goal'.investedAmount >= goal.investedAmount]_vars

\* C9: every confirmed SWAP record carries the signature of a transaction
\* that the network executed successfully.
C9_ConfirmedOnlyAfterSuccessfulExecution ==
  \A i \in 1..Len(transactions) :
    Confirmed(transactions[i]) =>
      \E tx \in SignedTxs : /\ SignatureOf(tx) = transactions[i].txnHash
                            /\ chain[tx] = "ok"

\* C10: the amount stamped on a confirmed SWAP record is the amount the
\* confirmed transaction paid out, whatever quoteResponse.outAmount the
\* request carried.
C10_CreditedAmountIsReceivedAmount ==
  \A i \in 1..Len(transactions) :
    Confirmed(transactions[i]) =>
      \E tx \in SignedTxs : /\ SignatureOf(tx) = transactions[i].txnHash
                            /\ transactions[i].amountCrypto = ReceivedOnChain(tx)

\* C11: in every reachable state there is at most one SWAP record per
\* batchId, whatever execute requests carry that batchId and however they
\* interleave.
C11_OneSwapRecordPerBatch ==
  \A b \in Batches :
    Cardinality({i \in 1..Len(transactions) :
                   transactions[i].batchId = b /\ transactions[i].type = "SWAP"}) <= 1

TransferRows(b) ==
  {i \in 1..Len(internalTransfers) : internalTransfers[i].batchId = b}

\* C12: for every batchId there is never more than one internal_transfers
\* row, and once a prepare request for the batchId has run its upsert
\* (whether it answers 200 or its insert was refused) there is exactly one.
C12_OneTransferRecordPerBatch ==
  \A b \in Batches :
    /\ Cardinality(TransferRows(b)) <= 1
    /\ \A t \in TransferIds :
         (tr[t].pc = "done" /\ tr[t].batchId = b /\ tr[t].resp.status \in {200, 500})
           => Cardinality(TransferRows(b)) = 1

\* two prepare requests for one batchId raced to insert: both have answered,
\* one of them refused by the unique index
C12_Witness ==
  \E t1, t2 \in TransferIds :
    /\ tr[t1].pc = "done" /\ tr[t1].resp.status = 200
    /\ tr[t2].pc = "done" /\ tr[t2].resp.status = 500
    /\ tr[t1].batchId = tr[t2].batchId
    /\ Cardinality(TransferRows(tr[t1].batchId)) = 1

\* C13: every prepare request that reaches its upsert, the loser of an
\* insert race included, answers with success and the unsigned transfer.
C13_RaceLoserSucceeds ==
  [][\A t \in TransferIds :
       (tr[t].pc = "upsert" /\ tr'[t].pc = "done")
         => /\ tr'[t].resp.status = 200
            /\ tr'[t].resp.success
            /\ tr'[t].resp.transfer]_vars

\* a submit request whose send was rejected with a blockhash-expired error
\* answers in this step
ExpiredSubmitAnswers(t) ==
  tr[t].pc \in {"refresh", "writeRefresh"} /\ tr'[t].pc = "done"

\* C14: a submit that fails with a blockhash-expired error is answered
\* retryable (success false, retryable true, code BLOCKHASH_EXPIRED) with a
\* refreshed unsigned transfer and the same batchId, and the batch's row is
\* then PREPARED with refreshCount one greater than it was.
C14_ExpiredSubmitIsRefreshed ==
  [][\A t \in TransferIds :
       ExpiredSubmitAnswers(t)
         => /\ ~tr'[t].resp.success
            /\ tr'[t].resp.retryable
            /\ tr'[t].resp.code = "BLOCKHASH_EXPIRED"
            /\ tr'[t].resp.transfer
            /\ tr'[t].resp.batchId = tr[t].batchId
            /\ \E i \in 1..Len(internalTransfers) :
                 /\ internalTransfers'[i].batchId = tr[t].batchId
                 /\ internalTransfers'[i].state = "PREPARED"
                 /\ internalTransfers'[i].refreshCount =
                      internalTransfers[i].refreshCount + 1]_vars

\* the transitions of the transfer state machine as specified
AllowedTransferTransitions ==
  {<<"PREPARED", "SUBMITTED">>, <<"SUBMITTED", "CONFIRMED">>,
   <<"SUBMITTED", "FAILED">>, <<"SUBMITTED", "PREPARED">>}

\* C16: the state of an internal_transfers row changes only along
\* PREPARED->SUBMITTED, SUBMITTED->CONFIRMED, SUBMITTED->FAILED and
\* SUBMITTED->PREPARED.
C16_TransferStateMachine ==
  [][\A i \in 1..Len(internalTransfers) :
       internalTransfers'[i].state # internalTransfers[i].state
         => <<internalTransfers[i].state, internalTransfers'[i].state>>
              \in AllowedTransferTransitions]_vars

TransferInState(b, states) ==
  \E i \in TransferRows(b) : internalTransfers[i].state \in states

\* C17: a row that is SUBMITTED is eventually CONFIRMED, FAILED or PREPARED
\* again, given that started handlers keep running and that the cluster
\* processes every transaction it has taken.
C17_SubmittedIsEventuallyResolved ==
  \A b \in Batches :
    TransferInState(b, {"SUBMITTED"})
      ~> TransferInState(b, {"CONFIRMED", "FAILED", "PREPARED"})

\* a submit request whose send was rejected with an error other than
\* blockhash-expired answers in this step
FailedSubmitAnswers(t) ==
  tr[t].pc \in {"markFailed", "writeFailed"} /\ tr'[t].pc = "done"

\* C18: when a submit that failed for a reason other than expiry answers,
\* the row of its batchId is FAILED and carries the failure reason, also for
\* a batchId that was never prepared.
C18_FailedSubmitIsRecorded ==
  [][\A t \in TransferIds :
       FailedSubmitAnswers(t)
         => \E i \in 1..Len(internalTransfers') :
              /\ internalTransfers'[i].batchId = tr[t].batchId
              /\ internalTransfers'[i].state = "FAILED"
              /\ internalTransfers'[i].error # NULL]_vars

\* C20: a transfer request answered with a validation, authentication or
\* authorization error has handed no transaction to the network, and the
\* step that answers it leaves every table as it was.
C20_RejectedRequestTouchesNothing ==
  [][\A t \in TransferIds :
       (tr[t].pc # "done" /\ tr'[t].pc = "done"
          /\ tr'[t].resp.status \in {400, 401, 403})
         => /\ ~tr'[t].sent
            /\ UNCHANGED <<internalTransfers, cluster, transactions, goal>>]_vars

\* C15: an execute request that finds the current height at or past the
\* lastValidBlockHeight it was given does not submit the transaction and is
\* answered retryable (with a freshly built payload), not with a terminal
\* error.
C15_ExpiredAnchorIsRetryable ==
  [][\A r \in ExecIds :
       (/\ ex[r].pc = "submit" /\ ex'[r].pc = "done"
        /\ ex'[r].lastValidBlockHeight # 0
        /\ ex'[r].currentBlockHeight >= ex'[r].lastValidBlockHeight)
         => chain' = chain /\ ex'[r].resp.retryable]_vars

\* C19: when the submission or confirmation of an execute request fails
\* with an unclassified error, the batch's SWAP record is marked FAILED
\* before the caller is answered 500 INTERNAL_ERROR.
C19_UnclassifiedFailureIsRecorded ==
  [][\A r \in ExecIds :
       (ex[r].pc = "submit" /\ ex'[r].pc = "done" /\ ex'[r].resp.status = 500)
         => /\ ex'[r].resp.code = "INTERNAL_ERROR"
            /\ \E i \in 1..Len(transactions') :
                 /\ transactions'[i].batchId = ex[r].body.batchId
                 /\ transactions'[i].type = "SWAP"
                 /\ transactions'[i].state = "FAILED"]_vars

\* an execution request is sent in this step
CardSends == Len(card'.requests) = Len(card.requests) + 1

SentBps == built[card'.requests[Len(card'.requests)].payload]

\* C21: an execution that follows a SLIPPAGE_EXCEEDED rejection at some
\* tolerance below 200 bps (with no slippage chosen by hand in between) is
\* made at the next step of the ladder 50, 100, 150, 200; no execution is
\* made above 200 bps; and a rejection at 200 bps ends the call with an
\* error and no retry.
C21_EscalationFollowsLadder ==
  [][/\ (CardSends /\ card.lastRejected # 0)
          => /\ SentBps <= 200
             /\ NextStep(card.lastRejected) # 0
                  => SentBps = NextStep(card.lastRejected)
     /\ (CardSends /\ card'.answer = "SLIPPAGE_EXCEEDED" /\ SentBps = 200)
          => card'.pc = "idle" /\ card'.error]_vars

\* C22: in one call of executeSwap the request sent after a retryable
\* failure carries a transaction signed after that failure's answer was
\* received, over the payload the answer brought, never the transaction of
\* the first request; a call sends at most two requests; and whenever no
\* call is running isExecuting is false.
C22_RetrySignsRefreshedPayload ==
  /\ Len(card.requests) <= 2
  /\ Len(card.requests) = 2 =>
       /\ card.requests[2].after = 1
       /\ card.requests[2].payload # card.requests[1].payload
       /\ card.requests[2].payload > card.requests[1].payload
  /\ card.pc = "idle" => ~card.isExecuting

C22_Witness ==
  /\ card.pc = "idle"
  /\ Len(card.requests) = 2
  /\ card.error
  /\ ~card.isExecuting

\* C23: the lamports computed from an accepted positive amount never exceed
\* amountSol * 10^9, both in the internal transfer prepare and in
\* solToLamports.
C23_LamportsNeverRoundUp ==
  (calc.done /\ calc.fn \in {"prepareLamports", "solToLamports"})
    => calc.result * QuartersPerLamport <= calc.args[1]

\* C24: validateStatusTransition returns for exactly the pairs
\* (ACTIVE, PAUSED) and (PAUSED, ACTIVE) and throws for every other pair of a
\* current status and a requested status, same-state requests and unknown or
\* missing statuses included.
C24_ExactlyPauseAndResume ==
  (calc.done /\ calc.fn = "validateStatusTransition")
    => (calc.result = TRUE <=>
          calc.args \in {<<"ACTIVE", "PAUSED">>, <<"PAUSED", "ACTIVE">>})

C24_Witness ==
  /\ calc.done
  /\ calc.fn = "validateStatusTransition"
  /\ calc.args = <<"ACTIVE", "ACTIVE">>
  /\ calc.result = FALSE

\* C30: calculateProgress never exceeds 100 and is 100 only when
\* shouldAutoComplete(investedAmount, targetAmount) holds.
C30_FullProgressOnlyWhenComplete ==
  (calc.done /\ calc.fn = "calculateProgress" /\ calc.args[2] > 0)
    => /\ calc.result <= 10000
       /\ calc.result = 10000 => shouldAutoComplete(calc.args[1], calc.args[2])

\* request t reaches the update of refreshExpiredTransfer and writes
Refreshes(t) == tr[t].pc = "writeRefresh" /\ tr'[t].pc = "done"

\* C25: every refresh of a batch leaves the persisted refreshCount one
\* greater than it was just before the refresh wrote (no increment is lost
\* between concurrent expiring submits), and leaves the metadata that other
\* requests wrote in the meantime as it was.
C25_RefreshLosesNothing ==
  [][\A t \in TransferIds :
       Refreshes(t) =>
         LET i == FindTransfer(tr[t].batchId) IN
         /\ internalTransfers'[i].refreshCount = internalTransfers[i].refreshCount + 1
         /\ internalTransfers'[i].error = internalTransfers[i].error]_vars

\* request t is answered
Answers(t) == tr[t].pc # "done" /\ tr'[t].pc = "done"

\* C26: when a submit is answered 201 with a signature, the record of its
\* batchId exists, is SUBMITTED and holds that signature.
C26_AnsweredSubmitIsPersisted ==
  [][\A t \in TransferIds :
       (Answers(t) /\ tr'[t].resp.status = 201) =>
         \E i \in 1..Len(internalTransfers') :
           /\ internalTransfers'[i].batchId = tr'[t].resp.batchId
           /\ internalTransfers'[i].state = "SUBMITTED"
           /\ internalTransfers'[i].signature = tr'[t].resp.signature]_vars

\* request t hands its signed transaction to sendRawTransaction
Sends(t) == tr[t].pc = "send" /\ tr'[t].sent

\* C27: a submit hands its transaction to the cluster only if the record of
\* its batchId exists and the transaction's fee payer is the sourceAddress
\* stored in that record.
C27_SendsOnlyForStoredSource ==
  [][\A t \in TransferIds :
       Sends(t) =>
         LET i == FindTransfer(tr[t].batchId) IN
         /\ i # 0
         /\ internalTransfers[i].sourceAddress = feePayer(tr[t].signedTransaction)]_vars

\* C28: a record in state PREPARED has no signature, also after a prepare
\* for a batchId that was already submitted.
C28_PreparedHasNoSignature ==
  \A i \in 1..Len(internalTransfers) :
    internalTransfers[i].state = "PREPARED" => internalTransfers[i].signature = 0

\* C29: investedAmount changes only while the persisted status is ACTIVE.
C29_IncrementOnlyWhileActive ==
  [][goal'.investedAmount # goal.investedAmount => goal.status = "ACTIVE"]_vars

====
